---- MODULE Spec2Model ----
(***************************************************************************)
(* Model of kylbox (domoticz_fridge_control.py): the framed protocol       *)
(* codec, the connect retry loop, and the synchronization between the      *)
(* cooler (BLE notifications / writes) and the Domoticz setpoint.          *)
(*                                                                         *)
(* Five specifications share the module:                                   *)
(*   SpecCodec    - create_packet / parse_frame applied to bounded inputs  *)
(*   SpecConnect  - connect_with_retry against a scripted transport        *)
(*   Spec         - main(), the polling task, set_temperature, the         *)
(*                  notification handler and the fire-and-forget pushes    *)
(*   SpecHandler  - notification_handler on every kind of inbound frame    *)
(*   SpecConverge - the program in a failure-free run with the cooler      *)
(*                  modelled, under fairness                               *)
(* Every await of the source is a program position (pc); the code between  *)
(* two awaits is one atomic action, as on the asyncio event loop.          *)
(***************************************************************************)
EXTENDS Integers, Sequences, FiniteSets, TLC

VARIABLES
    \* ---- SpecCodec
    cd_pc,          \* "input" | "built" | "parsed" | "idle"
    cd_data,        \* argument of create_packet: command byte followed by payload
    cd_pkt,         \* result of create_packet
    cd_out,         \* result of parse_frame
    \* ---- SpecConnect
    cn_pc,          \* "call" | "connecting" | "sleeping" | "returned" | "idle"
    cn_max,         \* max_attempts
    cn_script,      \* transport behaviour: cn_script[i] = TRUE iff the i-th connect succeeds
    cn_attempt,     \* loop variable attempt
    cn_calls,       \* number of client.connect() calls made
    cn_sleeps,      \* number of asyncio.sleep(5) delays taken
    cn_result,      \* "pending" | "client" | "None"
    \* ---- Spec: program state
    pc,                             \* pc["main"], pc["poll"]: the await each task is suspended at
    is_connected,                   \* client.is_connected
    notifying,                      \* start_notify succeeded and link not yet torn down
    session_closed,                 \* aiohttp_session.closed
    current_known_setpoint,
    last_reported_fridge_temp,
    last_reported_fridge_target,
    args_temp,                      \* command line -t / --temp (None when absent)
    temp,                           \* argument of the running set_temperature call
    domoticz_sp_float,              \* local of the polling loop: last pull result
    tasks,                          \* outstanding update_domoticz_device tasks per idx, in creation order
    \* ---- Spec: environment
    remote,                         \* Domoticz values (tenths of a degree) per idx
    wire,                           \* last frame the device received
    rx,                             \* last frame handed to notification_handler
    device,                         \* the cooler, when it is modelled: see DeviceOff / DeviceOn
    \* ---- Spec: history (observers only, never read by the program)
    hist,                           \* qr: target of the last reading; set: SetTarget delivered since, if any
    seqBase,                        \* what current_known_setpoint would be had the running sequence assigned nothing
    seqResult,                      \* how far the latest set_temperature call got, or how it ended
    shutdownLog                     \* shutdown steps in the order executed

codecVars == <<cd_pc, cd_data, cd_pkt, cd_out>>
connVars == <<cn_pc, cn_max, cn_script, cn_attempt, cn_calls, cn_sleeps, cn_result>>
syncState == <<current_known_setpoint, last_reported_fridge_temp, last_reported_fridge_target>>
progVars == <<pc, is_connected, notifying, session_closed, syncState, args_temp, temp,
              domoticz_sp_float, tasks>>
envVars == <<remote, wire, rx, device>>
histVars == <<hist, seqBase, seqResult, shutdownLog>>
syncVars == <<progVars, envVars, histVars>>
vars == <<codecVars, connVars, syncVars>>

\* Python's None is the empty tuple, a value v is <<v>> where both may occur.
None == <<>>
Some(v) == <<v>>
Val(o) == o[1]

(***************************************************************************)
(* Bounds of the model.                                                    *)
(***************************************************************************)
MaxSmallLen == 2        \* payloads of every length 0..MaxSmallLen over ByteSamples
MaxAttempts == 4        \* max_attempts ranges over 0..MaxAttempts
MaxTasks == 1           \* outstanding fire-and-forget pushes per idx
MaxAnswers == 2         \* answers the modelled cooler has still to notify

ByteSamples == {0, 1, 5, 254, 255}
LongLens == {251, 252, 253}

Min(a, b) == IF a < b THEN a ELSE b

(***************************************************************************)
(* Frame codec.                                                            *)
(***************************************************************************)
RECURSIVE SumBytes(_)
SumBytes(s) ==
    IF Len(s) = 0 THEN 0
    ELSE IF Len(s) = 1 THEN s[1]
    ELSE LET h == Len(s) \div 2
         IN  SumBytes(SubSeq(s, 1, h)) + SumBytes(SubSeq(s, h + 1, Len(s)))

\* struct.pack('B', v) / struct.pack('b', v) raise struct.error outside their range;
\* a raising create_packet is modelled by the empty sequence.
StructError == <<>>

\* data[a:b] of Python (0-based, clipped to the sequence).
Slice(data, a, b) == SubSeq(data, a + 1, Min(b, Len(data)))

\* A plausible slip: the one-byte checksum of calculate_checksum used for the frame.
create_packet_byte_checksum(data) ==
    LET pkt == <<254, 254, Len(data) + 2>> \o data
        csum == SumBytes(pkt) % 256
    IN  IF Len(data) + 2 > 255 THEN StructError
        ELSE pkt \o <<csum \div 256, csum % 256>>

create_packet(data) ==
    LET pkt_payload_len == Len(data)
        length_byte_value == pkt_payload_len + 2
        pkt == <<254, 254, length_byte_value>> \o data
        csum == SumBytes(pkt) % 65536
    IN  IF length_byte_value > 255 THEN StructError
        ELSE pkt \o <<csum \div 256, csum % 256>>

\* A plausible slip: the payload length computed without removing the command byte.
parse_frame_keeps_cmd_len(data) ==
    IF Len(data) < 4 THEN [raised |-> TRUE, cmd |-> 0, payload |-> <<>>]
    ELSE LET payload_len == data[3] - 2
         IN  [raised |-> FALSE, cmd |-> data[4],
              payload |-> IF payload_len > 0 THEN Slice(data, 4, 4 + payload_len) ELSE <<>>]

\* raised = TRUE stands for the IndexError of data[2] / data[3] on a short frame.
parse_frame(data) ==
    IF Len(data) < 4 THEN [raised |-> TRUE, cmd |-> 0, payload |-> <<>>]
    ELSE LET cmd_plus_payload_len == data[3] - 2
             payload_len == cmd_plus_payload_len - 1
         IN  [raised |-> FALSE, cmd |-> data[4],
              payload |-> IF payload_len > 0 THEN Slice(data, 4, 4 + payload_len) ELSE <<>>]

\* struct.unpack('b', bytes([b]))[0]
Signed(b) == IF b < 128 THEN b ELSE b - 256

\* struct.pack('b', t)[0], defined for -128..127
InInt8(t) == t >= -128 /\ t <= 127
ToByte(t) == IF t < 0 THEN t + 256 ELSE t

(***************************************************************************)
(* SpecCodec: create_packet then parse_frame on bounded inputs.            *)
(***************************************************************************)
SeqsUpTo(S, n) == UNION {[1..k -> S] : k \in 0..n}
Fill(b, n) == [i \in 1..n |-> b]

CodecPayloads == SeqsUpTo(ByteSamples, MaxSmallLen)
                 \cup {Fill(b, n) : b \in {0, 255}, n \in LongLens}
CodecInputs == {<<c>> \o p : c \in ByteSamples, p \in CodecPayloads}

ConnIdle ==
    /\ cn_pc = "idle" /\ cn_max = 0 /\ cn_script = <<>> /\ cn_attempt = 0
    /\ cn_calls = 0 /\ cn_sleeps = 0 /\ cn_result = "pending"

CodecIdle ==
    /\ cd_pc = "idle" /\ cd_data = <<>> /\ cd_pkt = <<>>
    /\ cd_out = [raised |-> FALSE, cmd |-> 0, payload |-> <<>>]

CodecEncode ==
    /\ cd_pc = "input"
    /\ cd_pkt' = create_packet(cd_data)
    /\ cd_pc' = "built"
    /\ UNCHANGED <<cd_data, cd_out, connVars, syncVars>>

CodecDecode ==
    /\ cd_pc = "built"
    /\ cd_pkt # StructError
    /\ cd_out' = parse_frame(cd_pkt)
    /\ cd_pc' = "parsed"
    /\ UNCHANGED <<cd_data, cd_pkt, connVars, syncVars>>

(***************************************************************************)
(* SpecConnect: connect_with_retry(address, max_attempts).                 *)
(***************************************************************************)
\* for attempt in range(max_attempts): first iteration, or fall off the loop (returns None)
ConnectEnter ==
    /\ cn_pc = "call"
    /\ IF cn_max > 0
       THEN /\ cn_pc' = "connecting"
            /\ cn_calls' = cn_calls + 1
            /\ UNCHANGED cn_result
       ELSE /\ cn_pc' = "returned"
            /\ cn_result' = "None"
            /\ UNCHANGED cn_calls
    /\ UNCHANGED <<cn_max, cn_script, cn_attempt, cn_sleeps, codecVars, syncVars>>

\* await client.connect() returns: return client
ConnectOk ==
    /\ cn_pc = "connecting"
    /\ cn_script[cn_calls]
    /\ cn_result' = "client"
    /\ cn_pc' = "returned"
    /\ UNCHANGED <<cn_max, cn_script, cn_attempt, cn_calls, cn_sleeps, codecVars, syncVars>>

\* A plausible slip: the delay is taken after the last failed attempt too.
ConnectBleakError_SleepAlways ==
    /\ cn_pc = "connecting"
    /\ ~cn_script[cn_calls]
    /\ IF cn_attempt < cn_max - 1
       THEN /\ cn_pc' = "sleeping"
            /\ cn_sleeps' = cn_sleeps + 1
            /\ UNCHANGED cn_result
       ELSE /\ cn_pc' = "returned"
            /\ cn_sleeps' = cn_sleeps + 1
            /\ cn_result' = "None"
    /\ UNCHANGED <<cn_max, cn_script, cn_attempt, cn_calls, codecVars, syncVars>>

\* except BleakError: sleep when attempts remain, else return None
ConnectBleakError ==
    /\ cn_pc = "connecting"
    /\ ~cn_script[cn_calls]
    /\ IF cn_attempt < cn_max - 1
       THEN /\ cn_pc' = "sleeping"
            /\ cn_sleeps' = cn_sleeps + 1
            /\ UNCHANGED cn_result
       ELSE /\ cn_pc' = "returned"
            /\ cn_result' = "None"
            /\ UNCHANGED cn_sleeps
    /\ UNCHANGED <<cn_max, cn_script, cn_attempt, cn_calls, codecVars, syncVars>>

\* await asyncio.sleep(5) returns: next iteration of the loop
ConnectSleepDone ==
    /\ cn_pc = "sleeping"
    /\ cn_attempt' = cn_attempt + 1
    /\ cn_calls' = cn_calls + 1
    /\ cn_pc' = "connecting"
    /\ UNCHANGED <<cn_max, cn_script, cn_sleeps, cn_result, codecVars, syncVars>>

(***************************************************************************)
(* Spec: values of the synchronization model.                              *)
(***************************************************************************)
TEMP_IDX == "62"
SETPOINT_IDX == "61"

TargetBytes == {4, 6}               \* payload[4] of the readings the cooler sends
ActualBytes == {254}                \* payload[14]
UserSetpoints == {44, 56, 1300}     \* tenths of a degree an operator stores in Domoticz
CommandLineTemps == {None, Some(6)}

QueryResponsePayload(tb, ab, n) ==
    [i \in 1..n |-> IF i = 5 THEN tb ELSE IF i = 15 THEN ab ELSE IF i = 16 THEN 85
                    ELSE IF i = 17 THEN 3 ELSE IF i = 18 THEN 7 ELSE 0]

ReadingFrames == {create_packet(<<1>> \o QueryResponsePayload(tb, ab, 18)) :
                    tb \in TargetBytes, ab \in ActualBytes}
AckFrame == create_packet(<<5, 6>>)
InboundFrames == ReadingFrames \cup {AckFrame}

\* Complete readings: targets 4 and -4, temperatures 2 and -2 with the shortest
\* complete payload, and one reading with a longer payload.
WideReadingFrames ==
    {create_packet(<<1>> \o QueryResponsePayload(tb, ab, 18)) : tb \in {4, 252}, ab \in {2, 254}}
        \cup {create_packet(<<1>> \o QueryResponsePayload(6, 254, 20))}

\* Inbound frames the codec and the handler must cope with.
\* Fewer than 4 bytes: no length byte or no command byte.
ShortFrames == {<<254>>, <<254, 254, 3>>}
\* The length byte declares more than is there: a reading cut after 20 bytes, and a
\* frame declaring 40 bytes that carries 18 payload bytes and 2 more.
OverDeclaredFrames ==
    {SubSeq(create_packet(<<1>> \o QueryResponsePayload(6, 2, 18)), 1, 20),
     <<254, 254, 40, 1>> \o QueryResponsePayload(6, 2, 18) \o <<0, 0>>}
TruncatedFrames == ShortFrames \cup OverDeclaredFrames
\* Well-formed query responses whose payload has 0..17 bytes.
ShortPayloadReadings == {create_packet(<<1>> \o QueryResponsePayload(6, 2, n)) : n \in 0..17}
\* The acknowledgment (0x05) and commands the handler does not know, with no payload,
\* a one-byte payload and a payload laid out like a reading.
OtherCommandFrames ==
    {create_packet(<<c>> \o p) : c \in {5, 0, 2, 255},
                                 p \in {<<>>, <<6>>, QueryResponsePayload(6, 2, 18)}}
HandlerFrames == WideReadingFrames \cup {AckFrame} \cup TruncatedFrames
                    \cup ShortPayloadReadings \cup OtherCommandFrames

\* Truncated as the protocol defines it: fewer than 4 bytes, or fewer bytes after the
\* length byte than it declares.
Truncated(f) == Len(f) < 4 \/ f[3] > Len(f) - 3

QueryFrame == create_packet(<<1>>)
SetTargetFrame(t) == create_packet(<<5, ToByte(t)>>)

\* A frame that carries a complete reading, and the target it reports, read off the
\* wire bytes (FE FE LEN 01, then payload offset 4).
IsReading(f) == Len(f) >= 22 /\ f[4] = 1 /\ f[3] >= 21
ReadingTarget(f) == Signed(f[9])
ReadingActual(f) == Signed(f[19])

\* int(round(x)) of Python 3: round half to even. x10 is x in tenths.
RoundHalfEven(x10) ==
    LET q == x10 \div 10
        r == x10 % 10
    IN  IF r < 5 THEN q
        ELSE IF r > 5 THEN q + 1
        ELSE IF q % 2 = 0 THEN q ELSE q + 1

(***************************************************************************)
(* notification_handler as a function of the three globals and the frame:  *)
(* the new globals and the update_domoticz_device tasks it creates.        *)
(***************************************************************************)
HandlerResult(k, lt, lg, pushes, raised) ==
    [known |-> k, last_temp |-> lt, last_target |-> lg, pushes |-> pushes, raised |-> raised]

\* A plausible slip: last_reported_fridge_temp not recorded after its push.
notification_handler_forgets_temp(known, last_temp, last_target, data) ==
    LET fr == parse_frame(data)
        payload == fr.payload
    IN  IF fr.raised THEN HandlerResult(known, last_temp, last_target, <<>>, TRUE)
        ELSE IF fr.cmd = 1
        THEN IF Len(payload) < 18
             THEN HandlerResult(known, last_temp, last_target, <<>>, FALSE)
             ELSE LET actual_temp == Signed(payload[15])
                      target_temp == Signed(payload[5])
                      p1 == IF last_temp # Some(actual_temp)
                            THEN <<[idx |-> TEMP_IDX, svalue |-> actual_temp]>> ELSE <<>>
                      p2 == IF last_target # Some(target_temp)
                            THEN <<[idx |-> SETPOINT_IDX, svalue |-> target_temp]>> ELSE <<>>
                  IN  HandlerResult(Some(target_temp), last_temp, Some(target_temp),
                                    p1 \o p2, FALSE)
        ELSE HandlerResult(known, last_temp, last_target, <<>>, FALSE)

\* A plausible slip: the reading only seeds an unset known setpoint.
notification_handler_seeds_only(known, last_temp, last_target, data) ==
    LET fr == parse_frame(data)
        payload == fr.payload
    IN  IF fr.raised THEN HandlerResult(known, last_temp, last_target, <<>>, TRUE)
        ELSE IF fr.cmd = 1
        THEN IF Len(payload) < 18
             THEN HandlerResult(known, last_temp, last_target, <<>>, FALSE)
             ELSE LET actual_temp == Signed(payload[15])
                      target_temp == Signed(payload[5])
                      p1 == IF last_temp # Some(actual_temp)
                            THEN <<[idx |-> TEMP_IDX, svalue |-> actual_temp]>> ELSE <<>>
                      p2 == IF last_target # Some(target_temp)
                            THEN <<[idx |-> SETPOINT_IDX, svalue |-> target_temp]>> ELSE <<>>
                  IN  HandlerResult(IF known = None THEN Some(target_temp) ELSE known,
                                    Some(actual_temp), Some(target_temp), p1 \o p2, FALSE)
        ELSE HandlerResult(known, last_temp, last_target, <<>>, FALSE)

\* A plausible slip: the battery bytes read after the globals were updated, so a
\* payload of 15..17 bytes updates them before the IndexError.
notification_handler_battery_last(known, last_temp, last_target, data) ==
    LET fr == parse_frame(data)
        payload == fr.payload
    IN  IF fr.raised THEN HandlerResult(known, last_temp, last_target, <<>>, TRUE)
        ELSE IF fr.cmd = 1
        THEN IF Len(payload) < 15
             THEN HandlerResult(known, last_temp, last_target, <<>>, FALSE)
             ELSE LET actual_temp == Signed(payload[15])
                      target_temp == Signed(payload[5])
                      p1 == IF last_temp # Some(actual_temp)
                            THEN <<[idx |-> TEMP_IDX, svalue |-> actual_temp]>> ELSE <<>>
                      p2 == IF last_target # Some(target_temp)
                            THEN <<[idx |-> SETPOINT_IDX, svalue |-> target_temp]>> ELSE <<>>
                  IN  HandlerResult(Some(target_temp), Some(actual_temp), Some(target_temp),
                                    p1 \o p2, FALSE)
        ELSE HandlerResult(known, last_temp, last_target, <<>>, FALSE)

\* A plausible slip: the echoed value of the acknowledgment taken as the setpoint.
notification_handler_ack_confirms(known, last_temp, last_target, data) ==
    LET fr == parse_frame(data)
        payload == fr.payload
    IN  IF fr.raised THEN HandlerResult(known, last_temp, last_target, <<>>, TRUE)
        ELSE IF fr.cmd = 1
        THEN IF Len(payload) < 18
             THEN HandlerResult(known, last_temp, last_target, <<>>, FALSE)
             ELSE LET actual_temp == Signed(payload[15])
                      target_temp == Signed(payload[5])
                      p1 == IF last_temp # Some(actual_temp)
                            THEN <<[idx |-> TEMP_IDX, svalue |-> actual_temp]>> ELSE <<>>
                      p2 == IF last_target # Some(target_temp)
                            THEN <<[idx |-> SETPOINT_IDX, svalue |-> target_temp]>> ELSE <<>>
                  IN  HandlerResult(Some(target_temp), Some(actual_temp), Some(target_temp),
                                    p1 \o p2, FALSE)
        ELSE IF fr.cmd = 5 /\ Len(payload) >= 1
        THEN HandlerResult(Some(Signed(payload[1])), last_temp, last_target, <<>>, FALSE)
        ELSE HandlerResult(known, last_temp, last_target, <<>>, FALSE)

notification_handler(known, last_temp, last_target, data) ==
    LET fr == parse_frame(data)
        payload == fr.payload
    IN  IF fr.raised THEN HandlerResult(known, last_temp, last_target, <<>>, TRUE)
        ELSE IF fr.cmd = 1
        THEN IF Len(payload) < 18
             THEN HandlerResult(known, last_temp, last_target, <<>>, FALSE)
             ELSE LET actual_temp == Signed(payload[15])
                      target_temp == Signed(payload[5])
                      p1 == IF last_temp # Some(actual_temp)
                            THEN <<[idx |-> TEMP_IDX, svalue |-> actual_temp]>> ELSE <<>>
                      p2 == IF last_target # Some(target_temp)
                            THEN <<[idx |-> SETPOINT_IDX, svalue |-> target_temp]>> ELSE <<>>
                  IN  HandlerResult(Some(target_temp), Some(actual_temp), Some(target_temp),
                                    p1 \o p2, FALSE)
        ELSE HandlerResult(known, last_temp, last_target, <<>>, FALSE)

(***************************************************************************)
(* Spec: main(), poll_domoticz_for_setpoint_changes, set_temperature.      *)
(***************************************************************************)
Tasks == {"main", "poll"}
PollAwaits == {"sleep", "pull", "s_write", "s_settle", "s_qwrite", "s_wait2"}
MainTryAwaits == {"start_notify", "iq_write", "wait3", "s_write", "s_settle", "s_qwrite",
                  "s_wait2", "extra_wait", "idle"}
\* The cooler. Spec leaves it open (device = DeviceOff: any inbound frame may be
\* notified at any time). With device.on it is the well-behaved cooler: it applies
\* each SetTarget at once, forms the answer to each Query from the target it holds
\* when the Query arrives, and notifies the answers in order, some time later.
DeviceOff == [on |-> FALSE, target |-> 0, answers |-> <<>>]
DeviceOn(t) == [on |-> TRUE, target |-> t, answers |-> <<>>]
DeviceActual == 2
AnswerFrame(t) == create_packet(<<1>> \o QueryResponsePayload(ToByte(t), DeviceActual, 18))

\* Outstanding pushes per idx the model follows: one more with the cooler modelled,
\* where the notifications are the answers only.
TaskBound == IF device.on THEN MaxTasks + 1 ELSE MaxTasks

DeviceReceives(f) ==
    IF ~device.on THEN UNCHANGED device
    ELSE IF f = QueryFrame
    THEN /\ Len(device.answers) < MaxAnswers
         /\ device' = [device EXCEPT !.answers = Append(@, device.target)]
    ELSE device' = [device EXCEPT !.target = Signed(f[5])]

DeviceSends(f) ==
    IF ~device.on THEN UNCHANGED device
    ELSE /\ device.answers # <<>>
         /\ f = AnswerFrame(Head(device.answers))
         /\ device' = [device EXCEPT !.answers = Tail(@)]

SyncInit ==
    /\ pc = [main |-> "connect", poll |-> "none"]
    /\ is_connected = FALSE
    /\ notifying = FALSE
    /\ session_closed = FALSE
    /\ current_known_setpoint = None
    /\ last_reported_fridge_temp = None
    /\ last_reported_fridge_target = None
    /\ args_temp \in CommandLineTemps
    /\ temp = 0
    /\ domoticz_sp_float = None
    /\ tasks = [sp |-> <<>>, tp |-> <<>>]
    /\ remote \in {[sp |-> Some(v), tp |-> None] : v \in UserSetpoints}
    /\ wire = <<>>
    /\ rx = <<>>
    /\ device = DeviceOff
    /\ hist = [qr |-> None, set |-> None]
    /\ seqBase = None
    /\ seqResult = "none"
    /\ shutdownLog = <<>>

SyncIdle ==
    /\ pc = [main |-> "off", poll |-> "none"]
    /\ is_connected = FALSE /\ notifying = FALSE /\ session_closed = FALSE
    /\ current_known_setpoint = None /\ last_reported_fridge_temp = None
    /\ last_reported_fridge_target = None /\ args_temp = None /\ temp = 0
    /\ domoticz_sp_float = None /\ tasks = [sp |-> <<>>, tp |-> <<>>]
    /\ remote = [sp |-> None, tp |-> None]
    /\ wire = <<>> /\ rx = <<>> /\ device = DeviceOff
    /\ hist = [qr |-> None, set |-> None]
    /\ seqBase = None /\ seqResult = "none" /\ shutdownLog = <<>>

\* The device received a frame.
Written(f) == f

\* finally: (lines 307-319) up to its first await. Cancels and awaits the polling
\* task when there is one that is not done, else goes on to the disconnect.
DisconnectOrClose(log) ==
    IF is_connected
    THEN /\ pc' = [pc EXCEPT !["main"] = "sd_disc"]
         /\ shutdownLog' = log
    ELSE /\ pc' = [pc EXCEPT !["main"] = "sd_close"]
         /\ shutdownLog' = log

BeginShutdown ==
    IF pc["poll"] \in PollAwaits
    THEN /\ pc' = [main |-> "sd_await", poll |-> "cancelling"]
         /\ shutdownLog' = <<"cancel">>
    ELSE DisconnectOrClose(<<>>)

\* Lines 283-294 after the startup phase: the extra wait when no reading seeded the
\* setpoint, else the polling task is created and main idles.
MainAfterSetup ==
    IF current_known_setpoint = None
    THEN pc' = [pc EXCEPT !["main"] = "extra_wait"]
    ELSE pc' = [main |-> "idle", poll |-> "sleep"]

\* set_temperature returned to its caller t; how = the way it ended.
Return(t, how) ==
    /\ IF t = "poll" THEN pc' = [pc EXCEPT !["poll"] = "sleep"] ELSE MainAfterSetup
    /\ seqBase' = current_known_setpoint
    /\ seqResult' = how
    /\ UNCHANGED shutdownLog

\* A plausible slip: the known setpoint assigned when the command is built, before
\* the write has been awaited.
CallSetTemperature_AssignsFirst(t, v) ==
    IF ~is_connected
    THEN Return(t, "not_connected") /\ UNCHANGED <<temp, current_known_setpoint>>
    ELSE IF ~InInt8(v)
    THEN /\ IF t = "poll"
            THEN pc' = [pc EXCEPT !["poll"] = "crashed"] /\ UNCHANGED shutdownLog
            ELSE BeginShutdown
         /\ seqResult' = "struct_error"
         /\ UNCHANGED <<temp, seqBase, current_known_setpoint>>
    ELSE /\ pc' = [pc EXCEPT ![t] = "s_write"]
         /\ temp' = v
         /\ current_known_setpoint' = Some(v)
         /\ seqBase' = current_known_setpoint
         /\ seqResult' = "called"
         /\ UNCHANGED shutdownLog

\* set_temperature(client, v) called by task t, up to its first await (lines 189-203).
CallSetTemperature(t, v) ==
    IF ~is_connected
    THEN Return(t, "not_connected") /\ UNCHANGED <<temp, current_known_setpoint>>
    ELSE IF ~InInt8(v)
    THEN \* struct.pack('b', temp) raises struct.error, which nothing in the callee catches
         /\ IF t = "poll"
            THEN pc' = [pc EXCEPT !["poll"] = "crashed"] /\ UNCHANGED shutdownLog
            ELSE BeginShutdown
         /\ seqResult' = "struct_error"
         /\ UNCHANGED <<temp, seqBase, current_known_setpoint>>
    ELSE /\ pc' = [pc EXCEPT ![t] = "s_write"]
         /\ temp' = v
         /\ seqBase' = current_known_setpoint
         /\ seqResult' = "called"
         /\ UNCHANGED <<shutdownLog, current_known_setpoint>>

\* ---------------------------------------------------------------- main()
MainConnectOk ==
    /\ pc["main"] = "connect"
    /\ is_connected' = TRUE
    /\ pc' = [pc EXCEPT !["main"] = "start_notify"]
    /\ UNCHANGED <<notifying, session_closed, syncState, args_temp, temp, domoticz_sp_float,
                   tasks, envVars, histVars, codecVars, connVars>>

MainConnectExhausted ==
    /\ pc["main"] = "connect"
    /\ session_closed' = TRUE
    /\ pc' = [pc EXCEPT !["main"] = "exit1"]
    /\ UNCHANGED <<is_connected, notifying, syncState, args_temp, temp, domoticz_sp_float,
                   tasks, envVars, histVars, codecVars, connVars>>

StartNotifyOk ==
    /\ pc["main"] = "start_notify"
    /\ is_connected
    /\ notifying' = TRUE
    /\ pc' = [pc EXCEPT !["main"] = "iq_write"]
    /\ UNCHANGED <<is_connected, session_closed, syncState, args_temp, temp,
                   domoticz_sp_float, tasks, envVars, histVars, codecVars, connVars>>

InitialQueryWriteOk ==
    /\ pc["main"] = "iq_write"
    /\ is_connected
    /\ wire' = Written(QueryFrame)
    /\ DeviceReceives(QueryFrame)
    /\ pc' = [pc EXCEPT !["main"] = "wait3"]
    /\ UNCHANGED <<is_connected, notifying, session_closed, syncState, args_temp, temp,
                   domoticz_sp_float, tasks, remote, rx, histVars, codecVars, connVars>>

\* start_notify or the initial write raises: except Exception, then finally
StartupFails ==
    /\ pc["main"] \in {"start_notify", "iq_write"}
    /\ BeginShutdown
    /\ UNCHANGED <<is_connected, notifying, session_closed, syncState, args_temp, temp,
                   domoticz_sp_float, tasks, envVars, hist, seqBase, seqResult, codecVars, connVars>>

\* A plausible slip: the polling task created before the command-line sequence is
\* awaited.
Wait3Done_PollsFirst ==
    /\ pc["main"] = "wait3"
    /\ IF args_temp # None /\ is_connected /\ InInt8(Val(args_temp))
       THEN /\ pc' = [main |-> "s_write", poll |-> "sleep"]
            /\ temp' = Val(args_temp)
            /\ seqBase' = current_known_setpoint
            /\ seqResult' = "called"
            /\ UNCHANGED <<shutdownLog, current_known_setpoint>>
       ELSE IF args_temp # None
       THEN CallSetTemperature("main", Val(args_temp))
       ELSE MainAfterSetup
            /\ UNCHANGED <<temp, seqBase, seqResult, shutdownLog, current_known_setpoint>>
    /\ UNCHANGED <<is_connected, notifying, session_closed, last_reported_fridge_temp,
                   last_reported_fridge_target, args_temp, domoticz_sp_float, tasks,
                   envVars, hist, codecVars, connVars>>

Wait3Done ==
    /\ pc["main"] = "wait3"
    /\ IF args_temp # None
       THEN CallSetTemperature("main", Val(args_temp))
       ELSE MainAfterSetup
            /\ UNCHANGED <<temp, seqBase, seqResult, shutdownLog, current_known_setpoint>>
    /\ UNCHANGED <<is_connected, notifying, session_closed, last_reported_fridge_temp,
                   last_reported_fridge_target, args_temp, domoticz_sp_float, tasks,
                   envVars, hist, codecVars, connVars>>

ExtraWaitDone ==
    /\ pc["main"] = "extra_wait"
    /\ pc' = [main |-> "idle", poll |-> "sleep"]
    /\ UNCHANGED <<is_connected, notifying, session_closed, syncState, args_temp, temp,
                   domoticz_sp_float, tasks, envVars, histVars, codecVars, connVars>>

\* KeyboardInterrupt / cancellation of main at any await inside the try block
Interrupt ==
    /\ pc["main"] \in MainTryAwaits
    /\ BeginShutdown
    /\ UNCHANGED <<is_connected, notifying, session_closed, syncState, args_temp, temp,
                   domoticz_sp_float, tasks, envVars, hist, seqBase, seqResult, codecVars, connVars>>

\* The cancelled polling task unwinds; await polling_task raises CancelledError or,
\* had the task ended otherwise, another exception. Both handlers go on.
AwaitPollingTask ==
    /\ pc["main"] = "sd_await"
    /\ pc["poll"] = "cancelling"
    /\ \E how \in {"cancelled", "failed"} :
          IF is_connected
          THEN /\ pc' = [main |-> "sd_disc", poll |-> how]
               /\ shutdownLog' = Append(shutdownLog, "poll:" \o how)
          ELSE /\ pc' = [main |-> "sd_close", poll |-> how]
               /\ shutdownLog' = Append(shutdownLog, "poll:" \o how)
    /\ UNCHANGED <<is_connected, notifying, session_closed, syncState, args_temp, temp,
                   domoticz_sp_float, tasks, envVars, hist, seqBase, seqResult, codecVars, connVars>>

\* A plausible slip: an error raised by disconnect() leaves the finally block.
Disconnect_ErrorEscapes ==
    /\ pc["main"] = "sd_disc"
    /\ \E how \in {"ok", "error"} :
          /\ shutdownLog' = Append(shutdownLog, "disconnect:" \o how)
          /\ IF how = "ok"
             THEN /\ is_connected' = FALSE /\ notifying' = FALSE
                  /\ pc' = [pc EXCEPT !["main"] = "sd_close"]
             ELSE /\ UNCHANGED <<is_connected, notifying>>
                  /\ pc' = [pc EXCEPT !["main"] = "done"]
    /\ UNCHANGED <<session_closed, syncState, args_temp, temp, domoticz_sp_float, tasks,
                   envVars, hist, seqBase, seqResult, codecVars, connVars>>

\* await client.disconnect() returns or raises (BleakError / Exception, both caught)
Disconnect ==
    /\ pc["main"] = "sd_disc"
    /\ \E how \in {"ok", "error"} :
          /\ shutdownLog' = Append(shutdownLog, "disconnect:" \o how)
          /\ IF how = "ok"
             THEN is_connected' = FALSE /\ notifying' = FALSE
             ELSE UNCHANGED <<is_connected, notifying>>
    /\ pc' = [pc EXCEPT !["main"] = "sd_close"]
    /\ UNCHANGED <<session_closed, syncState, args_temp, temp, domoticz_sp_float, tasks,
                   envVars, hist, seqBase, seqResult, codecVars, connVars>>

\* await aiohttp_session.close()
CloseSession ==
    /\ pc["main"] = "sd_close"
    /\ session_closed' = TRUE
    /\ shutdownLog' = Append(shutdownLog, "close")
    /\ pc' = [pc EXCEPT !["main"] = "done"]
    /\ UNCHANGED <<is_connected, notifying, syncState, args_temp, temp, domoticz_sp_float,
                   tasks, envVars, hist, seqBase, seqResult, codecVars, connVars>>

\* ------------------------------------------------------ set_temperature
\* A plausible slip: the optimistic assignment made although the write raised.
SetTargetWriteFail_AssignsAnyway(t) ==
    /\ pc[t] = "s_write"
    /\ current_known_setpoint' = Some(temp)
    /\ Return(t, "set_failed")
    /\ UNCHANGED <<is_connected, notifying, session_closed, last_reported_fridge_temp,
                   last_reported_fridge_target, args_temp, temp, domoticz_sp_float, tasks,
                   envVars, hist, codecVars, connVars>>

\* A plausible slip: no optimistic assignment after the write (lines 206-209 left out).
SetTargetWriteOk_NotOptimistic(t) ==
    /\ pc[t] = "s_write"
    /\ is_connected
    /\ wire' = Written(SetTargetFrame(temp))
    /\ DeviceReceives(SetTargetFrame(temp))
    /\ hist' = [hist EXCEPT !.set = Some(Signed(SetTargetFrame(temp)[5]))]
    /\ seqResult' = "set_sent"
    /\ pc' = [pc EXCEPT ![t] = "s_settle"]
    /\ UNCHANGED <<is_connected, notifying, session_closed, syncState, tasks,
                   args_temp, temp, domoticz_sp_float, remote, rx, seqBase, shutdownLog,
                   codecVars, connVars>>

\* await client.write_gatt_char(WRITE_CHAR, command_to_send) returns (lines 203-211)
SetTargetWriteOk(t) ==
    /\ pc[t] = "s_write"
    /\ is_connected
    /\ wire' = Written(SetTargetFrame(temp))
    /\ DeviceReceives(SetTargetFrame(temp))
    /\ hist' = [hist EXCEPT !.set = Some(Signed(SetTargetFrame(temp)[5]))]
    /\ current_known_setpoint' = Some(temp)
    /\ IF last_reported_fridge_target # Some(temp)
       THEN /\ Len(tasks.sp) < TaskBound
            /\ tasks' = [tasks EXCEPT !.sp = Append(@, [idx |-> SETPOINT_IDX, svalue |-> temp])]
            /\ last_reported_fridge_target' = Some(temp)
       ELSE UNCHANGED <<tasks, last_reported_fridge_target>>
    /\ seqResult' = "set_sent"
    /\ pc' = [pc EXCEPT ![t] = "s_settle"]
    /\ UNCHANGED <<is_connected, notifying, session_closed, last_reported_fridge_temp,
                   args_temp, temp, domoticz_sp_float, remote, rx, seqBase, shutdownLog,
                   codecVars, connVars>>

\* A plausible slip: the failed write handled inside the sequence, which goes on to
\* the settle delay and the Query.
SetTargetWriteFail_GoesOn(t) ==
    /\ pc[t] = "s_write"
    /\ pc' = [pc EXCEPT ![t] = "s_settle"]
    /\ seqResult' = "set_failed"
    /\ UNCHANGED <<is_connected, notifying, session_closed, syncState, args_temp, temp,
                   domoticz_sp_float, tasks, envVars, hist, seqBase, shutdownLog,
                   codecVars, connVars>>

\* the write raises BleakError: except BleakError (lines 221-222), return
SetTargetWriteFail(t) ==
    /\ pc[t] = "s_write"
    /\ Return(t, "set_failed")
    /\ UNCHANGED <<is_connected, notifying, session_closed, syncState, args_temp, temp,
                   domoticz_sp_float, tasks, envVars, hist, codecVars, connVars>>

\* await asyncio.sleep(1) returns (lines 211-217)
SettleDone(t) ==
    /\ pc[t] = "s_settle"
    /\ pc' = [pc EXCEPT ![t] = "s_qwrite"]
    /\ UNCHANGED <<is_connected, notifying, session_closed, syncState, args_temp, temp,
                   domoticz_sp_float, tasks, envVars, histVars, codecVars, connVars>>

\* the verifying Query is written (lines 217-219)
QueryWriteOk(t) ==
    /\ pc[t] = "s_qwrite"
    /\ is_connected
    /\ wire' = Written(QueryFrame)
    /\ DeviceReceives(QueryFrame)
    /\ seqResult' = "query_sent"
    /\ pc' = [pc EXCEPT ![t] = "s_wait2"]
    /\ UNCHANGED <<is_connected, notifying, session_closed, syncState, args_temp, temp,
                   domoticz_sp_float, tasks, remote, rx, hist, seqBase, shutdownLog,
                   codecVars, connVars>>

\* the Query write raises BleakError: except BleakError, return
QueryWriteFail(t) ==
    /\ pc[t] = "s_qwrite"
    /\ Return(t, "query_failed")
    /\ UNCHANGED <<is_connected, notifying, session_closed, syncState, args_temp, temp,
                   domoticz_sp_float, tasks, envVars, hist, codecVars, connVars>>

\* await asyncio.sleep(2) returns: set_temperature returns
Wait2Done(t) ==
    /\ pc[t] = "s_wait2"
    /\ Return(t, "completed")
    /\ UNCHANGED <<is_connected, notifying, session_closed, syncState, args_temp, temp,
                   domoticz_sp_float, tasks, envVars, hist, codecVars, connVars>>

\* --------------------------------- poll_domoticz_for_setpoint_changes
\* await asyncio.sleep(DOMOTICZ_POLLING_INTERVAL) returns (lines 229-239)
PollTick ==
    /\ pc["poll"] = "sleep"
    /\ IF ~is_connected
       THEN UNCHANGED pc
       ELSE pc' = [pc EXCEPT !["poll"] = "pull"]
    /\ domoticz_sp_float' = None     \* dead until the pull assigns it
    /\ UNCHANGED <<is_connected, notifying, session_closed, syncState, args_temp, temp,
                   tasks, envVars, histVars, codecVars, connVars>>

\* A plausible slip: an unset known setpoint is not treated as differing.
NeedsSet_IgnoresUnset(known, new_target) == known # None /\ Some(new_target) # known

\* The decision of line 244.
NeedsSet(known, new_target) == known = None \/ Some(new_target) # known

\* What the HTTP request of get_domoticz_setpoint can meet (lines 98-134):
\*   client_error  aiohttp.ClientError                          -> None (line 128)
\*   http_error    response.status != 200                       -> None (line 125)
\*   bad_json      response.json() raises JSONDecodeError       -> None (line 131)
\*   status_error  "status" not OK or "result" empty            -> None (line 122)
\*   no_field      no Data / svalue1 / SetPoint field           -> None (line 119)
\*   not_a_number  float() raises ValueError                    -> None (line 116)
\*   bad_shape     well-formed JSON of another shape (the document an array, the
\*                 result entry not an object, the field a JSON number): .get / .split
\*                 raise AttributeError, which no handler of the function names
\*   ok            the stored setpoint as a float
PullResponses == {"client_error", "http_error", "bad_json", "status_error", "no_field",
                  "not_a_number", "bad_shape", "ok"}

get_domoticz_setpoint(response, stored) ==
    IF response = "ok" THEN [raised |-> FALSE, value |-> stored]
    ELSE IF response = "bad_shape" THEN [raised |-> TRUE, value |-> None]
    ELSE [raised |-> FALSE, value |-> None]

\* await get_domoticz_setpoint(...) ends (lines 239-246). The loop has no handler: an
\* exception of the pull or of set_temperature ends the polling task.
PollPull(response) ==
    /\ pc["poll"] = "pull"
    /\ LET got == get_domoticz_setpoint(response, remote.sp)
           r == got.value
       IN  IF got.raised
           THEN /\ pc' = [pc EXCEPT !["poll"] = "crashed"]
                /\ seqResult' = "pull_raised"
                /\ UNCHANGED <<domoticz_sp_float, temp, seqBase, shutdownLog,
                               current_known_setpoint>>
           ELSE /\ domoticz_sp_float' = r
                /\ IF r # None /\ NeedsSet(current_known_setpoint, RoundHalfEven(Val(r)))
                   THEN CallSetTemperature("poll", RoundHalfEven(Val(r)))
                   ELSE /\ pc' = [pc EXCEPT !["poll"] = "sleep"]
                        /\ seqResult' = IF r = None THEN "pull_failed" ELSE "not_needed"
                        /\ UNCHANGED <<temp, seqBase, shutdownLog, current_known_setpoint>>
    /\ UNCHANGED <<is_connected, notifying, session_closed, last_reported_fridge_temp,
                   last_reported_fridge_target, args_temp, tasks, envVars, hist,
                   codecVars, connVars>>

PollPullDone == \E response \in PullResponses : PollPull(response)

\* ------------------------------------------- notifications and pushes
Key(idx) == IF idx = SETPOINT_IDX THEN "sp" ELSE "tp"
PushesFor(pushes, k) == SelectSeq(pushes, LAMBDA p : Key(p.idx) = k)

\* The transport delivers one notification: notification_handler(_, f) runs to its end.
Notify(f) ==
    /\ is_connected /\ notifying
    /\ pc["main"] \notin {"done", "exit1"}
    /\ LET r == notification_handler(current_known_setpoint, last_reported_fridge_temp,
                                     last_reported_fridge_target, f)
       IN  /\ \A k \in {"sp", "tp"} : Len(tasks[k]) + Len(PushesFor(r.pushes, k)) <= TaskBound
           /\ current_known_setpoint' = r.known
           /\ last_reported_fridge_temp' = r.last_temp
           /\ last_reported_fridge_target' = r.last_target
           /\ tasks' = [k \in {"sp", "tp"} |-> tasks[k] \o PushesFor(r.pushes, k)]
    /\ rx' = f
    /\ IF IsReading(f)
       THEN /\ hist' = [qr |-> Some(ReadingTarget(f)), set |-> None]
            /\ seqBase' = Some(ReadingTarget(f))
       ELSE UNCHANGED <<hist, seqBase>>
    /\ UNCHANGED <<pc, is_connected, notifying, session_closed, args_temp, temp,
                   domoticz_sp_float, remote, wire, seqResult, shutdownLog, codecVars, connVars>>
    /\ DeviceSends(f)

RemoveAt(s, i) == SubSeq(s, 1, i - 1) \o SubSeq(s, i + 1, Len(s))

\* What Domoticz stores for a pushed svalue: tenths under the setpoint idx.
Stored(task) == IF task.idx = SETPOINT_IDX THEN Some(10 * task.svalue) ELSE Some(task.svalue)

\* One update_domoticz_device task ends (lines 59-84): the HTTP requests of different
\* tasks are concurrent, so any outstanding one may end next; ok = the request reached
\* Domoticz and was applied.
PushDone(k, i, ok) ==
    /\ i \in 1..Len(tasks[k])
    /\ ok => ~session_closed
    /\ tasks' = [tasks EXCEPT ![k] = RemoveAt(@, i)]
    /\ IF ok
       THEN remote' = [remote EXCEPT ![k] = Stored(tasks[k][i])]
       ELSE UNCHANGED remote
    /\ UNCHANGED <<pc, is_connected, notifying, session_closed, syncState, args_temp, temp,
                   domoticz_sp_float, wire, rx, device, histVars, codecVars, connVars>>

\* An operator changes the setpoint in Domoticz.
OperatorSets(v) ==
    /\ pc["main"] \notin {"done", "exit1"}
    /\ remote.sp # Some(v)
    /\ remote' = [remote EXCEPT !.sp = Some(v)]
    /\ UNCHANGED <<progVars, wire, rx, device, histVars, codecVars, connVars>>

\* The link is lost.
LinkLost ==
    /\ is_connected
    /\ pc["main"] \notin {"done", "exit1"}
    /\ is_connected' = FALSE
    /\ notifying' = FALSE
    /\ UNCHANGED <<pc, session_closed, syncState, args_temp, temp, domoticz_sp_float, tasks,
                   envVars, histVars, codecVars, connVars>>

(***************************************************************************)
(* The specifications.                                                     *)
(***************************************************************************)
Init == CodecIdle /\ ConnIdle /\ SyncInit

Next ==
    \/ MainConnectOk \/ MainConnectExhausted \/ StartNotifyOk \/ InitialQueryWriteOk
    \/ StartupFails \/ Wait3Done \/ ExtraWaitDone \/ Interrupt
    \/ AwaitPollingTask \/ Disconnect \/ CloseSession
    \/ \E t \in Tasks : \/ SetTargetWriteOk(t) \/ SetTargetWriteFail(t) \/ SettleDone(t)
                        \/ QueryWriteOk(t) \/ QueryWriteFail(t) \/ Wait2Done(t)
    \/ PollTick \/ PollPullDone
    \/ \E f \in InboundFrames : Notify(f)
    \/ \E k \in {"sp", "tp"}, i \in 1..MaxTasks, ok \in BOOLEAN : PushDone(k, i, ok)
    \/ \E v \in UserSetpoints : OperatorSets(v)
    \/ LinkLost

Spec == Init /\ [][Next]_vars

InitCodec ==
    /\ cd_pc = "input" /\ cd_data \in CodecInputs /\ cd_pkt = <<>>
    /\ cd_out = [raised |-> FALSE, cmd |-> 0, payload |-> <<>>]
    /\ ConnIdle /\ SyncIdle

NextCodec == CodecEncode \/ CodecDecode

SpecCodec == InitCodec /\ [][NextCodec]_vars

InitConnect ==
    /\ cn_pc = "call" /\ cn_max \in 0..MaxAttempts
    /\ cn_script \in [1..MaxAttempts -> BOOLEAN]
    /\ cn_attempt = 0 /\ cn_calls = 0 /\ cn_sleeps = 0 /\ cn_result = "pending"
    /\ CodecIdle /\ SyncIdle

NextConnect == ConnectEnter \/ ConnectOk \/ ConnectBleakError \/ ConnectSleepDone

SpecConnect == InitConnect /\ [][NextConnect]_vars

\* SpecHandler: notification_handler applied to every combination of the three
\* globals, the program at rest (main in its idle loop, the polling task asleep,
\* the link up and notifying, no push outstanding).
HandlerSetpoints == {None, Some(4), Some(6), Some(-4)}
HandlerTemps == {None, Some(2), Some(-2)}

InitHandler ==
    /\ pc = [main |-> "idle", poll |-> "sleep"]
    /\ is_connected = TRUE /\ notifying = TRUE /\ session_closed = FALSE
    /\ current_known_setpoint \in HandlerSetpoints
    /\ last_reported_fridge_temp \in HandlerTemps
    /\ last_reported_fridge_target \in HandlerSetpoints
    /\ args_temp = None /\ temp = 0 /\ domoticz_sp_float = None
    /\ tasks = [sp |-> <<>>, tp |-> <<>>]
    /\ remote = [sp |-> Some(44), tp |-> None]
    /\ wire = <<>> /\ rx = <<>> /\ device = DeviceOff
    /\ hist = [qr |-> None, set |-> None]
    /\ seqBase = None /\ seqResult = "none" /\ shutdownLog = <<>>
    /\ CodecIdle /\ ConnIdle

NextHandler ==
    \/ \E f \in HandlerFrames : Notify(f)
    \/ \E k \in {"sp", "tp"}, i \in 1..MaxTasks, ok \in BOOLEAN : PushDone(k, i, ok)

SpecHandler == InitHandler /\ [][NextHandler]_vars

\* SpecConverge: the whole program in a world that behaves. The operator stored
\* HeldSetpoint before the start and leaves it alone, the link stays up, nobody
\* interrupts, every write, pull and push succeeds, and the cooler is the modelled
\* one (DeviceOn). Every task that can run does run and every request ends: the
\* event loop resumes each awaiting coroutine once its await is over.
HeldSetpoint == 5
DeviceTargets == {4, 5}

InitConverge ==
    /\ pc = [main |-> "connect", poll |-> "none"]
    /\ is_connected = FALSE /\ notifying = FALSE /\ session_closed = FALSE
    /\ current_known_setpoint = None
    /\ last_reported_fridge_temp = None
    /\ last_reported_fridge_target = None
    /\ args_temp \in CommandLineTemps
    /\ temp = 0 /\ domoticz_sp_float = None
    /\ tasks = [sp |-> <<>>, tp |-> <<>>]
    /\ remote = [sp |-> Some(10 * HeldSetpoint), tp |-> None]
    /\ wire = <<>> /\ rx = <<>>
    /\ device \in {DeviceOn(t) : t \in DeviceTargets}
    /\ hist = [qr |-> None, set |-> None]
    /\ seqBase = None /\ seqResult = "none" /\ shutdownLog = <<>>
    /\ CodecIdle /\ ConnIdle

MainStep ==
    \/ MainConnectOk \/ StartNotifyOk \/ InitialQueryWriteOk \/ Wait3Done \/ ExtraWaitDone
SequenceStep(t) ==
    \/ SetTargetWriteOk(t) \/ SettleDone(t) \/ QueryWriteOk(t) \/ Wait2Done(t)
PollStep == PollTick \/ PollPull("ok")
\* The answers the cooler may owe: of its initial targets, of HeldSetpoint and of the
\* command-line target.
AnswerFrames == {AnswerFrame(t) : t \in DeviceTargets \cup {HeldSetpoint}
                                        \cup {Val(a) : a \in CommandLineTemps \ {None}}}
DeviceStep == \E f \in AnswerFrames : Notify(f)
PushStep(k) == \E i \in 1..(MaxTasks + 1) : PushDone(k, i, TRUE)

NextConverge ==
    \/ MainStep
    \/ \E t \in Tasks : SequenceStep(t)
    \/ PollStep
    \/ DeviceStep
    \/ \E k \in {"sp", "tp"} : PushStep(k)

\* main() creates the polling task when it leaves the startup phase, so at any time
\* one coroutine of the program is between two awaits.
ProgramStep == MainStep \/ (\E t \in Tasks : SequenceStep(t)) \/ PollStep

\* The cooler notifies every answer it owes: its queue is empty again and again, or
\* it delivers again and again.
DeviceDelivers == Len(device'.answers) < Len(device.answers)
FairDevice == []<>(device.answers = <<>>) \/ []<><<DeviceDelivers>>_vars

FairConverge ==
    /\ WF_vars(ProgramStep)
    /\ FairDevice
    /\ \A k \in {"sp", "tp"} : WF_vars(PushStep(k))

SpecConverge == InitConverge /\ [][NextConverge]_vars /\ FairConverge

(***************************************************************************)
(* Properties.                                                             *)
(***************************************************************************)
\* What the completed steps say the cooler holds: the SetTarget delivered since the
\* last reading, else that reading's target.
Authority == IF hist.set # None THEN hist.set ELSE hist.qr

Reported(k) == IF k = "sp" THEN last_reported_fridge_target ELSE last_reported_fridge_temp

\* C1 as stated: on every tick with an active connection and a successful pull that
\* rounds to v, SetTarget v is issued as long as the last processed QueryResponse
\* did not report target_temp = v (known had been seeded by a reading; no
\* command-line target, so every sequence comes from a tick).
C1_ReissuedUntilConfirmed ==
    [][ (/\ pc["poll"] = "pull" /\ domoticz_sp_float' # None /\ is_connected
         /\ args_temp = None
         /\ InInt8(RoundHalfEven(Val(domoticz_sp_float')))
         /\ hist.qr # None
         /\ hist.qr # Some(RoundHalfEven(Val(domoticz_sp_float'))))
        => (pc'["poll"] = "s_write" /\ temp' = RoundHalfEven(Val(domoticz_sp_float'))) ]_vars

\* C1 amended: on such a tick SetTarget v is issued exactly when v is not what the
\* most recent completed step established (a delivered SetTarget v or, with none
\* since, a reading with target v); a call delivers its SetTarget at most once.
C1_ReissuedUntilDeliveredOrConfirmed ==
    /\ [][ (/\ pc["poll"] = "pull" /\ domoticz_sp_float' # None /\ is_connected
            /\ InInt8(RoundHalfEven(Val(domoticz_sp_float'))))
           => ((pc'["poll"] = "s_write" /\ temp' = RoundHalfEven(Val(domoticz_sp_float')))
               <=> Authority # Some(RoundHalfEven(Val(domoticz_sp_float')))) ]_vars
    /\ [][ (hist'.set # None /\ hist'.set # hist.set)
           => (seqResult = "called" /\ seqResult' = "set_sent"
               /\ wire' = SetTargetFrame(Val(hist'.set))) ]_vars

\* C1 witness: a tick ended without a sequence while the delivered SetTarget 6 is
\* still unconfirmed by the cooler, whose last reading said 4.
C1_TickSkippedWhileUnconfirmed ==
    /\ pc["poll"] = "sleep" /\ seqResult = "not_needed" /\ is_connected
    /\ domoticz_sp_float = Some(56)
    /\ hist = [qr |-> Some(4), set |-> Some(6)]
    /\ current_known_setpoint = Some(6)

\* C2 as stated: while a push of value v for a field has not completed, the field's
\* last_reported_* value is not yet v.
C2_ReportedOnlyAfterPush ==
    \A k \in {"sp", "tp"} : \A i \in 1..Len(tasks[k]) :
        Reported(k) # Some(tasks[k][i].svalue)

\* C3 as stated: a sequence that ends because the link was down, or because the
\* SetTarget write or the Query write failed, leaves current_known_setpoint at what
\* it would be had the sequence assigned nothing.
C3_AbortLeavesKnown ==
    [][ (/\ seqResult \in {"called", "set_sent"}
         /\ seqResult' \in {"set_failed", "query_failed"})
        => current_known_setpoint' = seqBase ]_vars

\* C3 amended: link down at the start or a failed SetTarget write changes nothing and
\* the next tick that still differs issues the sequence again; after a failed Query
\* write the known setpoint is the requested value unless a reading came since.
C3_AbortBeforeDeliveryLeavesKnown ==
    /\ [][ (seqResult = "called" /\ seqResult' = "set_failed")
           => (/\ current_known_setpoint' = seqBase
               /\ UNCHANGED <<syncState, wire, tasks, hist>>) ]_vars
    /\ [][ (/\ seqResult' = "not_connected"
            /\ \/ pc["poll"] = "pull" /\ pc'["poll"] = "sleep"
               \/ pc["main"] = "wait3" /\ pc'["main"] # "wait3")
           => UNCHANGED <<syncState, wire, tasks, hist>> ]_vars
    /\ [][ (seqResult = "set_sent" /\ seqResult' = "query_failed")
           => (/\ UNCHANGED <<syncState, tasks, hist>>
               /\ current_known_setpoint' = IF hist.set # None THEN Some(temp) ELSE hist.qr) ]_vars
    /\ [][ (/\ seqResult = "set_failed"
            /\ pc["poll"] = "pull" /\ domoticz_sp_float' # None /\ is_connected
            /\ InInt8(RoundHalfEven(Val(domoticz_sp_float')))
            /\ current_known_setpoint # Some(RoundHalfEven(Val(domoticz_sp_float'))))
           => (pc'["poll"] = "s_write" /\ temp' = RoundHalfEven(Val(domoticz_sp_float'))) ]_vars

\* C3 witness: the Query write failed and the known setpoint is the requested value,
\* which no reading has confirmed.
C3_QueryFailedKeepsRequested ==
    /\ seqResult = "query_failed"
    /\ current_known_setpoint = Some(temp)
    /\ hist.set = Some(temp) /\ hist.qr # Some(temp)

\* C4: for every combination of the three globals and every complete reading, the
\* first handling creates one push per field whose value differs from its
\* last_reported_* value and none for the others; handling the same frame again
\* right after creates no push and changes none of the three globals.
C4_SecondHandlingIsSilent ==
    /\ [][ (IsReading(rx') /\ rx' # rx)
           => /\ tasks'["tp"] = tasks["tp"] \o
                    (IF last_reported_fridge_temp # Some(ReadingActual(rx'))
                     THEN <<[idx |-> TEMP_IDX, svalue |-> ReadingActual(rx')]>> ELSE <<>>)
              /\ tasks'["sp"] = tasks["sp"] \o
                    (IF last_reported_fridge_target # Some(ReadingTarget(rx'))
                     THEN <<[idx |-> SETPOINT_IDX, svalue |-> ReadingTarget(rx')]>> ELSE <<>>) ]_vars
    /\ [][ (IsReading(rx) /\ rx' = rx)
           => /\ UNCHANGED syncState
              /\ \A k \in {"sp", "tp"} : Len(tasks'[k]) <= Len(tasks[k]) ]_vars

\* C4 witness: a reading whose target had been reported before was handled: one push,
\* for the temperature only, and the globals hold the reading, so that handling the
\* same frame again finds nothing changed.
C4_HandledOncePushedOnce ==
    /\ IsReading(rx)
    /\ tasks = [sp |-> <<>>, tp |-> <<[idx |-> TEMP_IDX, svalue |-> ReadingActual(rx)]>>]
    /\ last_reported_fridge_temp = Some(ReadingActual(rx))
    /\ last_reported_fridge_target = Some(ReadingTarget(rx))
    /\ current_known_setpoint = Some(ReadingTarget(rx))

\* C5: a tick with an active connection and a successful pull calls set_temperature
\* with the rounded value iff the known setpoint is unset or differs from it;
\* otherwise nothing is written and the three globals are unchanged.
C5_TickDecision ==
    [][ (pc["poll"] = "pull" /\ domoticz_sp_float' # None /\ is_connected)
        => IF \/ current_known_setpoint = None
              \/ current_known_setpoint # Some(RoundHalfEven(Val(domoticz_sp_float')))
           THEN IF InInt8(RoundHalfEven(Val(domoticz_sp_float')))
                THEN /\ pc'["poll"] = "s_write"
                     /\ temp' = RoundHalfEven(Val(domoticz_sp_float'))
                     /\ seqResult' = "called"
                ELSE seqResult' = "struct_error"
           ELSE /\ pc'["poll"] = "sleep"
                /\ seqResult' = "not_needed"
                /\ UNCHANGED <<syncState, wire, tasks, temp>> ]_vars

\* C5 witness: known = 4 and the pull returned 4.4: the tick ended with no sequence.
C5_EqualAfterRoundingSkips ==
    /\ pc["poll"] = "sleep" /\ seqResult = "not_needed" /\ is_connected
    /\ domoticz_sp_float = Some(44)
    /\ current_known_setpoint = Some(4)

\* C6: a complete reading handled in any reachable state leaves the known setpoint
\* at the reading's target, and whenever a reading is the most recent completed
\* step the known setpoint is that reading's target.
C6_DeviceIsAuthoritative ==
    /\ \A f \in WideReadingFrames :
          notification_handler(current_known_setpoint, last_reported_fridge_temp,
                               last_reported_fridge_target, f).known = Some(ReadingTarget(f))
    /\ (hist.qr # None /\ hist.set = None) => current_known_setpoint = hist.qr

\* C6 witness: a reading handled while a sequence is past its SetTarget write replaced
\* the optimistic value.
C6_ReadingOverridesOptimistic ==
    /\ \E t \in Tasks : pc[t] \in {"s_settle", "s_qwrite", "s_wait2"}
    /\ IsReading(rx)
    /\ hist = [qr |-> Some(ReadingTarget(rx)), set |-> None]
    /\ current_known_setpoint = Some(ReadingTarget(rx))
    /\ current_known_setpoint # Some(temp)

\* C7: never more than max_attempts connect calls; a returned client is the first
\* success; one delay between consecutive attempts and none after the last; None is
\* returned iff all max_attempts attempts failed.
C7_RetryBounded ==
    /\ cn_calls <= cn_max
    /\ cn_pc = "returned" =>
          /\ cn_result \in {"client", "None"}
          /\ cn_result = "client" =>
                /\ cn_script[cn_calls]
                /\ \A i \in 1..(cn_calls - 1) : ~cn_script[i]
          /\ cn_sleeps = IF cn_calls = 0 THEN 0 ELSE cn_calls - 1
          /\ cn_result = "None" <=> \A i \in 1..cn_max : ~cn_script[i]
          /\ cn_result = "None" => cn_calls = cn_max

\* C7 witness: max_attempts = 3, every attempt failed: 3 calls, 2 delays, None.
C7_ThreeAttemptsExhausted ==
    /\ cn_pc = "returned" /\ cn_max = 3 /\ cn_result = "None"
    /\ cn_calls = 3 /\ cn_sleeps = 2

\* C8: in every state, and so wherever the polling task is cancelled, the known
\* setpoint is what the most recent completed step established: the target of the
\* last reading or the SetTarget delivered after it.
C8_KnownMatchesLastCompletedStep ==
    current_known_setpoint = Authority

\* C8 witness: the polling task was cancelled while the SetTarget write was awaited;
\* the known setpoint is not the requested value.
C8_CancelledDuringSetTargetWrite ==
    /\ pc["poll"] = "cancelled" /\ seqResult = "called"
    /\ current_known_setpoint # Some(temp)
    /\ current_known_setpoint # None

\* The shutdown log of a finished main(): the polling task first (when one was
\* running), then the disconnect (when the link was up), then the session close.
ShutdownOrders ==
    {p \o d \o <<"close">> :
        p \in {<<>>} \cup {<<"cancel", "poll:" \o h>> : h \in {"cancelled", "failed"}},
        d \in {<<>>} \cup {<<"disconnect:" \o h>> : h \in {"ok", "error"}}}

\* C9: the disconnect is awaited only after the polling task has ended, the session is
\* closed last, and an error of an earlier step does not skip a later one.
C9_ShutdownInOrder ==
    /\ pc["main"] \in {"sd_disc", "sd_close", "done"} =>
          pc["poll"] \in {"none", "crashed", "cancelled", "failed"}
    /\ pc["main"] = "done" => session_closed /\ shutdownLog \in ShutdownOrders
    /\ (pc["main"] \in {"sd_close", "done"} /\ is_connected) =>
          \E i \in 1..Len(shutdownLog) : shutdownLog[i] = "disconnect:error"
    /\ (session_closed /\ pc["main"] # "exit1") => pc["main"] = "done"

\* C9 witness: the polling task ended with an error and the disconnect raised; the
\* session was closed all the same.
C9_ErrorsDoNotSkipSteps ==
    /\ pc["main"] = "done" /\ session_closed
    /\ shutdownLog = <<"cancel", "poll:failed", "disconnect:error", "close">>

\* C10: for every command byte and every payload of at most 252 bytes create_packet
\* builds a frame and parse_frame returns the command and the payload.
C10_RoundTrip ==
    /\ (cd_pc = "built" /\ Len(cd_data) - 1 <= 252) => cd_pkt # StructError
    /\ (cd_pc = "parsed" /\ Len(cd_data) - 1 <= 252) =>
          cd_out = [raised |-> FALSE, cmd |-> Head(cd_data), payload |-> Tail(cd_data)]

\* C10 witness: a 252-byte payload came back whole.
C10_LongestPayloadRoundTrips ==
    /\ cd_pc = "parsed" /\ Len(cd_data) = 253
    /\ cd_out.payload = Tail(cd_data) /\ Len(cd_out.payload) = 252


\* The literal query frame of test_fridge.py: FE FE 03 01 02 00.
HardCodedQuery == <<254, 254, 3, 1, 2, 0>>

\* C11: a frame built for command c and payload p is FE FE LEN c p CSUM_HI CSUM_LO,
\* LEN = 1 + len(p) + 2, the checksum the sum of all preceding bytes mod 65536, high
\* byte first; the built Query frame is the hard-coded literal.
C11_WireFormat ==
    /\ (cd_pc \in {"built", "parsed"} /\ cd_pkt # StructError) =>
          LET c == Head(cd_data)
              p == Tail(cd_data)
              n == Len(cd_pkt)
          IN  /\ n = Len(p) + 6
              /\ cd_pkt[1] = 254 /\ cd_pkt[2] = 254
              /\ cd_pkt[3] = 1 + Len(p) + 2
              /\ cd_pkt[4] = c
              /\ \A i \in 1..Len(p) : cd_pkt[4 + i] = p[i]
              /\ \A i \in 1..n : cd_pkt[i] \in 0..255
              /\ 256 * cd_pkt[n - 1] + cd_pkt[n]
                     = (254 + 254 + cd_pkt[3] + c + SumBytes(p)) % 65536
    /\ QueryFrame = HardCodedQuery

\* C11 witness: the Query command was framed and the frame is the literal.
C11_QueryFrameBuilt ==
    /\ cd_pc = "built" /\ cd_data = <<1>>
    /\ cd_pkt = HardCodedQuery


\* C12 as stated: while the link is down a tick writes nothing, pushes nothing and
\* changes none of the three globals, and the loop stays at its delay; a tick whose
\* pull yields no value does the same and goes back to the delay for the next tick.
C12_SkippedTickGoesOn ==
    /\ [][ (pc["poll"] = "sleep" /\ ~is_connected)
           => /\ pc'["poll"] \in {"sleep", "cancelling"}
              /\ UNCHANGED <<syncState, wire>>
              /\ \A k \in {"sp", "tp"} : Len(tasks'[k]) <= Len(tasks[k]) ]_vars
    /\ [][ (/\ pc["poll"] = "pull" /\ pc'["poll"] \notin {"pull", "cancelling"}
            /\ domoticz_sp_float' = None)
           => /\ pc'["poll"] = "sleep"
              /\ UNCHANGED <<syncState, wire, tasks>> ]_vars


\* C13 as stated: a truncated frame handed to the handler is dropped: none of the
\* three globals changes, no push is created, and no exception leaves the handler.
C13_TruncatedFramesDropped ==
    [][ (rx' # rx /\ Truncated(rx'))
        => /\ UNCHANGED <<syncState, tasks>>
           /\ ~notification_handler(current_known_setpoint, last_reported_fridge_temp,
                                    last_reported_fridge_target, rx').raised ]_vars


\* C14: a query response with a payload of 0..17 bytes, handled in any combination of
\* the three globals, changes none of them and creates no push, whatever bytes of
\* the reading are present; the IndexError is caught inside the handler.
C14_ShortReadingDropped ==
    [][ (rx' # rx /\ rx' \in ShortPayloadReadings)
        => /\ UNCHANGED <<syncState, tasks>>
           /\ ~notification_handler(current_known_setpoint, last_reported_fridge_temp,
                                    last_reported_fridge_target, rx').raised ]_vars

\* C14 witness: a response with 17 payload bytes, target 6 and temperature 2 among
\* them, was handled; the globals still hold 4 and -2 and nothing was pushed.
C14_SeventeenBytesIgnored ==
    /\ rx \in ShortPayloadReadings /\ Len(parse_frame(rx).payload) = 17
    /\ Signed(rx[9]) = 6 /\ Signed(rx[19]) = 2
    /\ current_known_setpoint = Some(4)
    /\ last_reported_fridge_target = Some(4)
    /\ last_reported_fridge_temp = Some(-2)
    /\ tasks = [sp |-> <<>>, tp |-> <<>>]


\* C15: a notification whose command is the acknowledgment 0x05 or a command the
\* handler does not know, whatever its payload, changes none of the three globals,
\* creates no push, writes nothing to the device and raises nothing.
C15_OnlyReadingsChangeState ==
    [][ (rx' # rx /\ rx' \in OtherCommandFrames)
        => /\ UNCHANGED <<syncState, tasks, wire>>
           /\ ~notification_handler(current_known_setpoint, last_reported_fridge_temp,
                                    last_reported_fridge_target, rx').raised ]_vars

\* C15 witness: an acknowledgment carrying a payload laid out like a reading with
\* target 6 was handled; the globals still hold 4 and -2 and nothing was pushed.
C15_AckWithReadingPayloadIgnored ==
    /\ rx = create_packet(<<5>> \o QueryResponsePayload(6, 2, 18))
    /\ current_known_setpoint = Some(4)
    /\ last_reported_fridge_target = Some(4)
    /\ last_reported_fridge_temp = Some(-2)
    /\ tasks = [sp |-> <<>>, tp |-> <<>>]


\* Positions inside set_temperature, and where its caller is after it returned or
\* was cancelled.
SequencePcs == {"s_write", "s_settle", "s_qwrite", "s_wait2"}
Returned(t) == IF t = "poll" THEN pc["poll"] = "sleep" ELSE pc["main"] \in {"extra_wait", "idle"}
Cancelled(t) == IF t = "poll" THEN pc["poll"] = "cancelling"
                ELSE pc["main"] \in {"sd_await", "sd_disc", "sd_close"}

\* C16: a sequence starts at the SetTarget write, having written and assigned nothing;
\* the known setpoint and the optimistic push come in the step in which that write
\* succeeded; the settle delay follows, then the Query write, then the second delay,
\* and the sequence returns from that delay or from a failed write. Outside a
\* reading nothing else assigns the known setpoint or creates a setpoint push.
C16_SequenceOrder ==
    /\ [][ \A t \in Tasks :
          pc'[t] # pc[t] =>
                /\ (pc'[t] \in SequencePcs /\ pc[t] \notin SequencePcs)
                      => /\ pc'[t] = "s_write" /\ seqResult' = "called"
                         /\ UNCHANGED <<wire, syncState, tasks>>
                /\ pc[t] = "s_write"
                      => \/ /\ pc'[t] = "s_settle" /\ seqResult' = "set_sent"
                            /\ wire' = SetTargetFrame(temp)
                            /\ current_known_setpoint' = Some(temp)
                            /\ last_reported_fridge_target' = Some(temp)
                            /\ tasks'["sp"] = tasks["sp"] \o
                                  (IF last_reported_fridge_target # Some(temp)
                                   THEN <<[idx |-> SETPOINT_IDX, svalue |-> temp]>> ELSE <<>>)
                         \/ /\ Returned(t)' /\ seqResult' = "set_failed"
                            /\ UNCHANGED <<wire, syncState, tasks>>
                         \/ Cancelled(t)' /\ UNCHANGED <<wire, syncState, tasks>>
                /\ pc[t] = "s_settle"
                      => /\ pc'[t] = "s_qwrite" \/ Cancelled(t)'
                         /\ UNCHANGED <<wire, syncState, tasks>>
                /\ pc[t] = "s_qwrite"
                      => \/ pc'[t] = "s_wait2" /\ seqResult' = "query_sent" /\ wire' = QueryFrame
                         \/ Returned(t)' /\ seqResult' = "query_failed" /\ UNCHANGED wire
                         \/ Cancelled(t)' /\ UNCHANGED wire
                /\ pc[t] = "s_wait2"
                      => /\ (Returned(t)' /\ seqResult' = "completed") \/ Cancelled(t)'
                         /\ UNCHANGED wire ]_vars
    /\ [][ current_known_setpoint' # current_known_setpoint
           => \/ hist'.set = None /\ current_known_setpoint' = hist'.qr
              \/ /\ seqResult = "called" /\ seqResult' = "set_sent"
                 /\ current_known_setpoint' = Some(temp) /\ wire' = SetTargetFrame(temp) ]_vars
    /\ [][ wire' = QueryFrame /\ wire # QueryFrame
           => \/ pc["main"] = "iq_write"
              \/ seqResult = "set_sent" /\ seqResult' = "query_sent" ]_vars

\* C16 witness: a sequence of the polling task ran to its end: the Query was the last
\* frame written and the known setpoint is the value sent.
C16_SequenceCompleted ==
    /\ pc["poll"] = "sleep" /\ seqResult = "completed"
    /\ wire = QueryFrame
    /\ hist.set = Some(temp) /\ current_known_setpoint = Some(temp)


\* C17 as stated: the first frame written after connecting is the Query; the sequence
\* for the command-line target starts only once a reading has been handled; the
\* polling task is created only when main leaves the startup phase for its idle loop.
C17_StartupOrder ==
    /\ [][ (wire = <<>> /\ wire' # wire) => (pc["main"] = "iq_write" /\ wire' = QueryFrame) ]_vars
    /\ [][ (pc["main"] = "wait3" /\ pc'["main"] = "s_write") => hist.qr # None ]_vars
    /\ [][ (pc["poll"] = "none" /\ pc'["poll"] # "none")
           => /\ pc["main"] \in {"wait3", "extra_wait"} \cup SequencePcs
              /\ pc' = [main |-> "idle", poll |-> "sleep"] ]_vars


\* C18 as stated, for the values a pull returns and the outcomes of the writes: a pull
\* that returned a value is followed by the next delay or by a sequence, and a
\* sequence of the polling task ends in the next delay unless the task is cancelled.
C18_PollingNeverDies ==
    /\ [][ (pc["poll"] = "pull" /\ domoticz_sp_float' # None)
           => pc'["poll"] \in {"sleep", "s_write"} ]_vars
    /\ [][ pc["poll"] \in SequencePcs
           => pc'["poll"] \in SequencePcs \cup {"sleep", "cancelling"} ]_vars

\* The cooler, the engine and Domoticz hold the same setpoint v.
AgreeOn(v) ==
    /\ device.target = v
    /\ current_known_setpoint = Some(v)
    /\ remote.sp = Some(10 * v)

\* C19: with the remote setpoint held at HeldSetpoint, the link up and every pull,
\* write and push succeeding, the cooler's target, the known setpoint and the remote
\* setpoint are eventually all HeldSetpoint and stay so.
C19_ConvergesToHeld == <>[]AgreeOn(HeldSetpoint)

\* C20: once no push is outstanding (all of them having succeeded), Domoticz holds
\* under the setpoint idx the last reported target and under the temperature idx the
\* last reported temperature.
C20_PushesLandInOrder ==
    (tasks.sp = <<>> /\ tasks.tp = <<>>) =>
        /\ last_reported_fridge_target # None
               => remote.sp = Some(10 * Val(last_reported_fridge_target))
        /\ last_reported_fridge_temp # None
               => remote.tp = Some(Val(last_reported_fridge_temp))

\* C21: at most one set_temperature call is in flight. While main runs the sequence
\* for the command-line target the polling task does not exist yet; the polling task
\* goes back to its sleep from a sequence only when the call has returned; a frame is
\* written by the initial Query or by the one task that is in a sequence; and a step
\* of a sequence that changes SyncState is the step after the SetTarget write, which
\* assigns the known setpoint and the last reported target together.
C21_OneSequenceInFlight ==
    /\ [](~(pc["main"] \in SequencePcs /\ pc["poll"] \in SequencePcs))
    /\ [](pc["main"] \in SequencePcs => pc["poll"] = "none")
    /\ [][ (pc["poll"] \in SequencePcs /\ pc'["poll"] = "sleep")
              => seqResult' \in {"completed", "set_failed", "query_failed"} ]_vars
    /\ [][ wire' # wire
              => \/ pc["main"] = "iq_write"
                 \/ \E t \in Tasks :
                       /\ pc[t] \in {"s_write", "s_qwrite"}
                       /\ pc'[t] \in {"s_settle", "s_wait2"}
                       /\ \A u \in Tasks \ {t} : pc[u] \notin SequencePcs ]_vars
    /\ [][ \A t \in Tasks :
              (pc[t] \in SequencePcs /\ pc'[t] # pc[t] /\ syncState' # syncState)
                 => /\ pc[t] = "s_write" /\ pc'[t] = "s_settle"
                    /\ current_known_setpoint' = Some(temp)
                    /\ last_reported_fridge_target' = Some(temp)
                    /\ UNCHANGED last_reported_fridge_temp ]_vars

\* C21 witness: the command-line sequence is over, main idles, and the polling task is
\* in a sequence of its own for another target, its Query written.
C21_PollSequenceAfterStartup ==
    /\ args_temp # None /\ temp # Val(args_temp)
    /\ pc = [main |-> "idle", poll |-> "s_wait2"]
    /\ wire = QueryFrame /\ hist.set = Some(temp)
    /\ current_known_setpoint = Some(temp)

====
